---- MODULE Spec2Model ----
(***************************************************************************)
(* Model of dragonflow/neutron/services/l3/l3_controller_plugin.py:        *)
(* the port-event callbacks, the ARP notification builder, the binding     *)
(* resolver, the agent notifier and the router auto-scheduler of           *)
(* ControllerL3ServicePlugin.                                              *)
(*                                                                         *)
(* Python values are encoded as follows.                                   *)
(*   - None / an absent dict key of an optional value: the empty tuple     *)
(*     <<>>; a present value v: the one-element tuple <<v>>.               *)
(*   - router_id is either the integer 0 or a device id string; it is      *)
(*     modelled by strings, the integer 0 by PyZero.                       *)
(*   - a device_owner string is the sequence of its tokens, so that the    *)
(*     substring test `"compute:" in owner` is a search in the sequence.   *)
(***************************************************************************)
EXTENDS Integers, Sequences, FiniteSets, TLC

VARIABLES
    portStore,      \* core plugin port table: port id -> stored port dict
    bindingStore,   \* ML2 bound port contexts: port id -> <<>> | <<segments>>
    l3_agents,      \* agent registry: the L3 agents currently registered
    ev,             \* the event being handled (kwargs of the callback)
    result,         \* "idle" | "returned" | name of the exception raised
    calls,          \* plugin methods the callback invoked, in order
    notifications,  \* ARP notifications handed to _add/_del_arp_entry
    sent,           \* messages given to the messaging channel, in order
    bindings,       \* router scheduling state: set of <<router_id, agent>>
    pass,           \* per host: the auto_schedule_routers call in progress
    rpc,            \* the plugin method called directly, with its outcome
    first,          \* outcome of the first delivery of an event delivered twice
    down            \* agents to which a cast fails (transport failure)

vars == <<portStore, bindingStore, l3_agents, ev, result, calls,
          notifications, sent, bindings, pass, rpc, first, down>>

storeVars == <<portStore, bindingStore>>
eventVars == <<ev, result, calls, notifications, sent>>
schedVars == <<bindings, pass>>
auxVars == <<rpc, first, down>>

-----------------------------------------------------------------------------
(* Bounds of the model *)

MaxFixedIps == 1
MaxSegments == 2
MaxRemoved == 2

-----------------------------------------------------------------------------
(* Values *)

None == <<>>
Some(v) == <<v>>

PyZero == "0"

\* bool(router_id) for router_id in {0} \cup str
Truthy(v) == v # PyZero /\ v # ""

\* bool(flag) for a flag that is None (key absent), True or False
FlagTrue(f) == f = "True"

COMPUTE_MARKER == "compute:"

OWNER_COMPUTE == <<"compute:", "nova">>
OWNER_ROUTER_INTERFACE == <<"network:", "router_interface">>
OWNER_ROUTER_INTERFACE_DISTRIBUTED == <<"network:", "router_interface_distributed">>
OWNER_DHCP == <<"network:", "dhcp">>

ROUTER_INTERFACE_OWNERS == {OWNER_ROUTER_INTERFACE, OWNER_ROUTER_INTERFACE_DISTRIBUTED}

Owners == {OWNER_COMPUTE, OWNER_ROUTER_INTERFACE, OWNER_DHCP}
PortIds == {"p1"}
DeviceIds == {"", "r1"}
SubnetIds == {"s1"}
BindHosts == {"h1"}
Agents == {"a1", "a2"}
AgentOrder == <<"a1", "a2">>
Routers == {"r1", "r2"}
Hosts == {"h1", "h2"}

L3_TOPIC == "l3_agent"
RPC_VERSION == "1.2"

\* the agent row of the registry: l3_agent.topic, l3_agent.host
AgentTopic(a) == L3_TOPIC
AgentHost(a) == IF a = "a1" THEN "h1" ELSE "h2"

SeqsUpTo(S, n) == UNION {[1..k -> S] : k \in 0..n}

FixedIpLists == SeqsUpTo([subnet_id : SubnetIds], MaxFixedIps)

\* the i-th network segment of a bound network
Segment(i) == [network_type |-> "vxlan", segmentation_id |-> 100 * i,
               physical_network |-> "physnet"]
SegmentLists == {[i \in 1..k |-> Segment(i)] : k \in 0..MaxSegments}

\* a port dict; subnets is <<>> until the port is enriched
PortDict(id, owner, device, ips, host, seg) ==
    [id |-> id, device_owner |-> owner, device_id |-> device,
     fixed_ips |-> ips, binding_host_id |-> host,
     subnets |-> <<>>, segmentation_id |-> seg]

StoredPorts == {PortDict(id, o, d, f, h, None) :
                  id \in PortIds, o \in Owners, d \in DeviceIds,
                  f \in FixedIpLists, h \in BindHosts}

EventPorts == {PortDict(id, o, d, f, h, s) :
                  id \in PortIds, o \in Owners, d \in DeviceIds,
                  f \in FixedIpLists, h \in BindHosts, s \in {None, Some(7)}}

NullPort == PortDict("", <<>>, "", <<>>, "", None)

RemovedRouter(r, a) == [router_id |-> r, agent_id |-> a]
RemovedPool == {RemovedRouter("r1", "a1"), RemovedRouter("r2", "a2")}
RemovedLists == SeqsUpTo(RemovedPool, MaxRemoved)

Contexts == {"absent", "None", "ctx"}
Flags == {"None", "True", "False"}

Event(kind, port, context, mac, up, removed) ==
    [kind |-> kind, port |-> port, context |-> context,
     mac_address_updated |-> mac, update_device_up |-> up,
     removed_routers |-> removed]

NoEvent == Event("none", None, "absent", "None", "None", <<>>)

-----------------------------------------------------------------------------
(* Messages given to the messaging channel *)

\* l3_rpc_notifier.add_arp_entry / del_arp_entry(context, router_id, arp_table, operation)
ArpCall(method, router_id, arp_table, operation) ==
    [via |-> "l3_rpc_notifier", method |-> method, topic |-> "", server |-> "",
     version |-> "", router_id |-> router_id, router_ids |-> <<>>,
     port |-> arp_table, operation |-> operation]

\* client.prepare(topic, server, version).cast(context, method, payload)
Cast(method, topic, server, version, payload) ==
    [via |-> "cast", method |-> method, topic |-> topic, server |-> server,
     version |-> version, router_id |-> payload.router_id, router_ids |-> <<>>,
     port |-> payload.arp_table, operation |-> ""]

\* l3_rpc_notifier.routers_updated(context, router_ids, operation, data)
RoutersUpdated(router_ids, operation, data) ==
    [via |-> "l3_rpc_notifier", method |-> "routers_updated", topic |-> "",
     server |-> "", version |-> "", router_id |-> "", router_ids |-> router_ids,
     port |-> data.port, operation |-> operation]

\* l3_rpc_notifier.router_deleted(context, router_id)
RouterDeleted(router_id) ==
    [via |-> "l3_rpc_notifier", method |-> "router_deleted", topic |-> "",
     server |-> "", version |-> "", router_id |-> router_id, router_ids |-> <<>>,
     port |-> NullPort, operation |-> ""]

-----------------------------------------------------------------------------
(* Effects: what a call did before it returned or raised *)

Effect(s, n, c, e) == [sent |-> s, notifications |-> n, calls |-> c, exc |-> e]

Nothing == Effect(<<>>, <<>>, <<>>, "")
Raise(e) == Effect(<<>>, <<>>, <<>>, e)
Called(name) == Effect(<<>>, <<>>, <<name>>, "")

\* a; b  (b is not run when a raised)
Then(a, b) ==
    IF a.exc # "" THEN a
    ELSE Effect(a.sent \o b.sent, a.notifications \o b.notifications,
                a.calls \o b.calls, b.exc)

-----------------------------------------------------------------------------
(* Collaborators: port/subnet store, binding store, agent registry *)

\* self._core_plugin.get_port(context, id)
get_port(id) == portStore[id]

\* self._core_plugin.get_subnet(context, id)
get_subnet(id) == [id |-> id, cidr |-> "10.0.0.0/24"]

\* core_plugin.get_bound_port_context(ctx, port_id, host): None or a context
get_bound_port_context(port_id, host) == bindingStore[<<port_id, host>>]

\* plugin.get_l3_agents(admin_context): the registered agents, as a list
get_l3_agents == SelectSeq(AgentOrder, LAMBDA a : a \in l3_agents)

-----------------------------------------------------------------------------
(* Binding Resolver *)

Value(v) == [exc |-> "", val |-> v]
Raised(e) == [exc |-> e, val |-> None]

\* network_segments is a list: the subscript [0] of an empty list raises
\* IndexError, which `except KeyError` does not catch, so `return {}` is
\* never reached and every entry returned has its segmentation_id key.
get_ml2_port_bond_data(port_id, device_id) ==
    LET port_context == get_bound_port_context(port_id, device_id) IN
    IF port_context = None THEN Value(None)
    ELSE LET network_segments == port_context[1] IN
         IF Len(network_segments) = 0 THEN Raised("IndexError")
         ELSE LET segment == network_segments[1] IN
              Value(Some([device |-> device_id,
                          port_id |-> port_id,
                          network_type |-> segment.network_type,
                          segmentation_id |-> segment.segmentation_id,
                          physical_network |-> segment.physical_network]))

_get_segmentation_id(port) ==
    LET port_data == get_ml2_port_bond_data(port.id, port.binding_host_id) IN
    IF port_data.exc # "" THEN port_data
    ELSE IF port_data.val = None THEN Value(0)
    ELSE Value(port_data.val[1].segmentation_id)

-----------------------------------------------------------------------------
(* Agent Notifier *)

RECURSIVE CastToAll(_, _, _)
\* for l3_agent in l3_agents: ... cctxt.cast(context, method, payload);
\* a cast that fails raises, and nothing catches it
CastToAll(agents, method, dvr_arptable) ==
    IF agents = <<>> THEN Nothing
    ELSE IF Head(agents) \in down THEN Raise("MessageDeliveryFailure")
    ELSE Then(Effect(<<Cast(method, AgentTopic(Head(agents)),
                            AgentHost(Head(agents)), RPC_VERSION,
                            dvr_arptable)>>,
                     <<>>, <<>>, ""),
              CastToAll(Tail(agents), method, dvr_arptable))

\* mutant: the loop over the agents stops after the first agent
_agent_notification_arp_first_only(context, method, data) ==
    IF context = "None" THEN Raise("AttributeError")
    ELSE CastToAll(IF get_l3_agents = <<>> THEN <<>>
                   ELSE <<Head(get_l3_agents)>>,
                   method, [router_id |-> PyZero, arp_table |-> data])

_agent_notification_arp(context, method, data) ==
    IF context = "None" THEN Raise("AttributeError")  \* context.is_admin
    ELSE CastToAll(get_l3_agents, method,
                   [router_id |-> PyZero, arp_table |-> data])

\* mutant: the test is `router_id != 0` instead of the truth value
_add_arp_entry_nonzero(context, router_id, arp_table, operation) ==
    IF router_id # PyZero
    THEN Effect(<<ArpCall("add_arp_entry", router_id, arp_table, operation)>>,
                <<>>, <<>>, "")
    ELSE _agent_notification_arp(context, "add_arp_entry", arp_table)

_add_arp_entry(context, router_id, arp_table, operation) ==
    IF Truthy(router_id)
    THEN Effect(<<ArpCall("add_arp_entry", router_id, arp_table, operation)>>,
                <<>>, <<>>, "")
    ELSE _agent_notification_arp(context, "add_arp_entry", arp_table)

_del_arp_entry(context, router_id, arp_table, operation) ==
    IF Truthy(router_id)
    THEN Effect(<<ArpCall("del_arp_entry", router_id, arp_table, operation)>>,
                <<>>, <<>>, "")
    ELSE _agent_notification_arp(context, "del_arp_entry", arp_table)

\* the notification handed to notify_action
ArpNotification(action, router_id, arp_table) ==
    [operation |-> action, router_id |-> router_id, arp_table |-> arp_table]

_send_new_port_notify(context, notify_port, action, router_id, segmentation_id) ==
    LET port == [notify_port EXCEPT !.segmentation_id = Some(segmentation_id)]
        built == Effect(<<>>, <<ArpNotification(action, router_id, port)>>, <<>>, "")
    IN IF action = "add"
       THEN Then(built, _add_arp_entry(context, router_id, port, "None"))
       ELSE IF action = "del"
       THEN Then(built, _del_arp_entry(context, router_id, port, "None"))
       ELSE Raise("UnboundLocalError")

remove_router_from_l3_agent(context, agent_id, router_id) ==
    Effect(<<RouterDeleted(router_id)>>, <<>>,
           <<"remove_router_from_l3_agent">>, "")

delete_router_interface(context, notify_port) ==
    Effect(<<RoutersUpdated(<<notify_port.device_id>>, "del_interface",
                            [port |-> notify_port])>>,
           <<>>, <<"delete_router_interface">>, "")

-----------------------------------------------------------------------------
(* ARP Notification Builder *)

\* mutant: the owner test is dropped
is_port_with_ip_addresses(port_dict) ==
    Len(port_dict.fixed_ips) > 0

\* mutant: the fixed_ips test is dropped
is_vm_port_only(port_dict) ==
    \E i \in 1..Len(port_dict.device_owner) :
        port_dict.device_owner[i] = COMPUTE_MARKER

is_vm_port_with_ip_addresses(port_dict) ==
    LET is_vm_port == \E i \in 1..Len(port_dict.device_owner) :
                          port_dict.device_owner[i] = COMPUTE_MARKER
        has_ip_addresses == Len(port_dict.fixed_ips) > 0
    IN is_vm_port /\ has_ip_addresses

Subnets(port) ==
    [i \in 1..Len(port.fixed_ips) |-> get_subnet(port.fixed_ips[i].subnet_id)]

\* mutant: router_id is the device_id whatever the owner is
add_vm_port_any_owner(context, port_dict) ==
    LET stored == get_port(port_dict.id)
        notify_port == [stored EXCEPT !.subnets = Subnets(stored)]
        router_id == notify_port.device_id
        segmentation_id == _get_segmentation_id(notify_port)
    IN IF segmentation_id.exc # "" THEN Raise(segmentation_id.exc)
       ELSE _send_new_port_notify(context, notify_port, "add", router_id,
                                  segmentation_id.val)

add_vm_port(context, port_dict) ==
    LET stored == get_port(port_dict.id)
        notify_port == [stored EXCEPT !.subnets = Subnets(stored)]
        router_id == IF notify_port.device_owner \in ROUTER_INTERFACE_OWNERS
                     THEN notify_port.device_id
                     ELSE PyZero
        segmentation_id == _get_segmentation_id(notify_port)
    IN IF segmentation_id.exc # "" THEN Raise(segmentation_id.exc)
       ELSE _send_new_port_notify(context, notify_port, "add", router_id,
                                  segmentation_id.val)

add_port(context, port_dict) ==
    Then(Called("add_port"),
         IF is_vm_port_with_ip_addresses(port_dict)
         THEN add_vm_port(context, port_dict)
         ELSE Nothing)

\* mutant: the segmentation id is resolved as on the add path
remove_vm_port_resolves(context, port_dict) ==
    LET port == [port_dict EXCEPT !.subnets = Subnets(port_dict)]
        segmentation_id == _get_segmentation_id(port)
    IN IF segmentation_id.exc # "" THEN Raise(segmentation_id.exc)
       ELSE _send_new_port_notify(context, port, "del", PyZero,
                                  segmentation_id.val)

\* mutant: the port is re-read from the port store as on the add path
remove_vm_port_stored(context, port_dict) ==
    LET stored == get_port(port_dict.id)
        port == [stored EXCEPT !.subnets = Subnets(stored)]
    IN _send_new_port_notify(context, port, "del", PyZero, 0)

remove_vm_port(context, port_dict) ==
    LET port == [port_dict EXCEPT !.subnets = Subnets(port_dict)] IN
    _send_new_port_notify(context, port, "del", PyZero, 0)

\* mutant: the eligibility test is dropped
remove_port_unchecked(context, port_dict) ==
    Then(Called("remove_port"), remove_vm_port(context, port_dict))

remove_port(context, port_dict) ==
    Then(Called("remove_port"),
         IF is_vm_port_with_ip_addresses(port_dict)
         THEN remove_vm_port(context, port_dict)
         ELSE Nothing)

-----------------------------------------------------------------------------
(* Event Dispatcher *)

\* kwargs.get(key): None when the key is absent
KwargsGetContext(kwargs) ==
    IF kwargs.context = "absent" THEN "None" ELSE kwargs.context

\* mutant: both flags are required (`and` for `or`)
_notify_l3_agent_new_port_both_flags(kwargs) ==
    LET port == kwargs.port
        context == KwargsGetContext(kwargs)
    IN IF port = None THEN Nothing
       ELSE IF context = "None" THEN Nothing
       ELSE IF FlagTrue(kwargs.mac_address_updated)
               /\ FlagTrue(kwargs.update_device_up)
       THEN add_port(context, port[1])
       ELSE Nothing

_notify_l3_agent_new_port(kwargs) ==
    LET port == kwargs.port
        mac_address_updated == kwargs.mac_address_updated
        update_device_up == kwargs.update_device_up
        context == KwargsGetContext(kwargs)
    IN IF port = None THEN Nothing
       ELSE IF context = "None" THEN Nothing
       ELSE IF FlagTrue(mac_address_updated) \/ FlagTrue(update_device_up)
       THEN add_port(context, port[1])
       ELSE Nothing

RECURSIVE RemoveRouters(_, _)
\* for router in removed_routers: l3plugin.remove_router_from_l3_agent(...)
RemoveRouters(context, removed_routers) ==
    IF removed_routers = <<>> THEN Nothing
    ELSE Then(remove_router_from_l3_agent(context,
                                          Head(removed_routers).agent_id,
                                          Head(removed_routers).router_id),
              RemoveRouters(context, Tail(removed_routers)))

\* mutant: delete_router_interface is called whatever the owner is
_notify_l3_agent_delete_port_any_owner(kwargs) ==
    IF kwargs.context = "absent" \/ kwargs.port = None
    THEN Raise("KeyError")
    ELSE LET context == kwargs.context
             port == kwargs.port[1]
             removed_routers == kwargs.removed_routers
         IN Then(remove_port(context, port),
            Then(delete_router_interface(context, port),
                 RemoveRouters(context, removed_routers)))

_notify_l3_agent_delete_port(kwargs) ==
    IF kwargs.context = "absent" \/ kwargs.port = None
    THEN Raise("KeyError")  \* kwargs['context'], kwargs['port']
    ELSE LET context == kwargs.context
             port == kwargs.port[1]
             removed_routers == kwargs.removed_routers
         IN Then(remove_port(context, port),
            Then(IF port.device_owner \in ROUTER_INTERFACE_OWNERS
                 THEN delete_router_interface(context, port)
                 ELSE Nothing,
                 RemoveRouters(context, removed_routers)))

-----------------------------------------------------------------------------
(* Plugin methods called directly: the binding resolver, get_ports_by_subnet *)

PortOrder == <<"p1">>

\* super().get_ports_by_subnet(context, subnet_id=...): the ports that have
\* a fixed IP on the subnet
SubnetPorts(subnet_id) ==
    SelectSeq([i \in 1..Len(PortOrder) |-> get_port(PortOrder[i])],
              LAMBDA port : \E k \in 1..Len(port.fixed_ips) :
                               port.fixed_ips[k].subnet_id = subnet_id)

RECURSIVE SetSegmentationIds(_)
\* for port in result: ... port['segmentation_id'] = segmentation_id
SetSegmentationIds(ports) ==
    IF ports = <<>> THEN Value(<<>>)
    ELSE LET port == Head(ports)
             port_data == get_ml2_port_bond_data(port.id, port.binding_host_id)
         IN IF port_data.exc # "" THEN port_data
            ELSE IF port_data.val = None
            THEN Raised("TypeError")  \* "segmentation_id" in None
            ELSE LET segmentation_id == port_data.val[1].segmentation_id
                     rest == SetSegmentationIds(Tail(ports))
                 IN IF rest.exc # "" THEN rest
                    ELSE Value(<<[port EXCEPT !.segmentation_id =
                                                  Some(segmentation_id)]>>
                               \o rest.val)

get_ports_by_subnet(subnet_id) ==
    LET ports == SubnetPorts(subnet_id) IN
    IF ports = <<>> THEN Value(ports)  \* if result: is false
    ELSE SetSegmentationIds(ports)

Rpc(op, arg, host, exc, data, ports) ==
    [op |-> op, arg |-> arg, host |-> host, exc |-> exc, data |-> data,
     ports |-> ports]

NoRpc == Rpc("none", "", "", "", None, <<>>)

-----------------------------------------------------------------------------
(* Router Scheduler *)

\* self.get_enabled_agent_on_host(context, AGENT_TYPE_L3, host): agent or None
get_enabled_agent_on_host(host) ==
    IF \E a \in l3_agents : AgentHost(a) = host
    THEN Some(CHOOSE a \in l3_agents : AgentHost(a) = host)
    ELSE None

BoundRouters(bound) == {b[1] : b \in bound}

\* router_scheduler._get_routers_to_schedule(context, plugin, router_ids):
\* the candidates not yet bound to any agent
_get_routers_to_schedule(bound, router_ids) ==
    {r \in router_ids : r \notin BoundRouters(bound)}

\* mutant: the assignment is a plain insert, with no test of the router's state
bind_router_unconditional(bound, router_id, agent) ==
    bound \cup {<<router_id, agent>>}

\* the data store's assignment, a compare-and-set: bind only if still unscheduled
bind_router(bound, router_id, agent) ==
    IF router_id \in BoundRouters(bound) THEN bound
    ELSE bound \cup {<<router_id, agent>>}

RECURSIVE BindAll(_, _, _)
BindAll(bound, routers, agent) ==
    IF routers = {} THEN bound
    ELSE LET r == CHOOSE x \in routers : TRUE IN
         BindAll(bind_router(bound, r, agent), routers \ {r}, agent)

\* router_scheduler._bind_routers(context, plugin, routers, l3_agent)
_bind_routers(bound, routers, l3_agent) == BindAll(bound, routers, l3_agent)

Pass(pc, l3_agent, router_ids, unscheduled_rs, ret) ==
    [pc |-> pc, l3_agent |-> l3_agent, router_ids |-> router_ids,
     unscheduled_rs |-> unscheduled_rs, ret |-> ret]

IdlePass == Pass("idle", None, {}, {}, "")

\* mutant: an agent of another host is taken when the host has none
auto_schedule_routers_select_any_agent(host, router_ids) ==
    /\ pass[host].pc = "idle"
    /\ LET on_host == get_enabled_agent_on_host(host)
           l3_agent == IF on_host # None \/ l3_agents = {} THEN on_host
                       ELSE Some(CHOOSE a \in l3_agents : TRUE)
       IN
       IF l3_agent = None
       THEN pass' = [pass EXCEPT ![host] =
                        Pass("done", None, router_ids, {}, "False")]
       ELSE pass' = [pass EXCEPT ![host] =
                        Pass("bind", l3_agent, router_ids,
                             _get_routers_to_schedule(bindings, router_ids), "")]
    /\ UNCHANGED bindings

\* auto_schedule_routers, lines 315-323: resolve the agent of the host and
\* ask the policy for the unscheduled candidates
auto_schedule_routers_select(host, router_ids) ==
    /\ pass[host].pc = "idle"
    /\ LET l3_agent == get_enabled_agent_on_host(host) IN
       IF l3_agent = None
       THEN pass' = [pass EXCEPT ![host] =
                        Pass("done", None, router_ids, {}, "False")]
       ELSE pass' = [pass EXCEPT ![host] =
                        Pass("bind", l3_agent, router_ids,
                             _get_routers_to_schedule(bindings, router_ids), "")]
    /\ UNCHANGED bindings

\* mutant: every router is bound, not the unscheduled candidates
auto_schedule_routers_bind_all(host) ==
    /\ pass[host].pc = "bind"
    /\ bindings' = _bind_routers(bindings, Routers, pass[host].l3_agent[1])
    /\ pass' = [pass EXCEPT ![host].pc = "done", ![host].ret = "None"]

\* auto_schedule_routers, lines 325-328: bind what was selected, return None
auto_schedule_routers_bind(host) ==
    /\ pass[host].pc = "bind"
    /\ bindings' = _bind_routers(bindings, pass[host].unscheduled_rs,
                                 pass[host].l3_agent[1])
    /\ pass' = [pass EXCEPT ![host].pc = "done", ![host].ret = "None"]

AutoScheduleSelect ==
    /\ \E host \in Hosts, router_ids \in SUBSET Routers :
          auto_schedule_routers_select(host, router_ids)
    /\ UNCHANGED <<storeVars, l3_agents, eventVars, auxVars>>

AutoScheduleBind ==
    /\ \E host \in Hosts : auto_schedule_routers_bind(host)
    /\ UNCHANGED <<storeVars, l3_agents, eventVars, auxVars>>

\* the RPC call has returned to the agent that asked
AutoScheduleReturn ==
    /\ \E host \in Hosts :
          /\ pass[host].pc = "done"
          /\ pass' = [pass EXCEPT ![host] = IdlePass]
    /\ UNCHANGED <<bindings, storeVars, l3_agents, eventVars, auxVars>>

-----------------------------------------------------------------------------
(* Actions *)

Handled(e, eff) ==
    /\ ev' = e
    /\ sent' = eff.sent
    /\ notifications' = eff.notifications
    /\ calls' = eff.calls
    /\ result' = IF eff.exc = "" THEN "returned" ELSE eff.exc

\* the event bus delivers a PORT AFTER_CREATE / AFTER_UPDATE event
PortCreatedOrUpdated ==
    /\ result = "idle"
    /\ \E kind \in {"AFTER_CREATE", "AFTER_UPDATE"},
          port \in {None} \cup {Some(p) : p \in EventPorts},
          context \in Contexts, mac \in Flags, up \in Flags :
          LET e == Event(kind, port, context, mac, up, <<>>) IN
          Handled(e, _notify_l3_agent_new_port(e))
    /\ UNCHANGED <<storeVars, l3_agents, schedVars, auxVars>>

\* the event bus delivers a PORT AFTER_DELETE event
PortDeleted ==
    /\ result = "idle"
    /\ \E port \in {None} \cup {Some(p) : p \in EventPorts},
          context \in Contexts, removed \in RemovedLists :
          LET e == Event("AFTER_DELETE", port, context, "None", "None", removed) IN
          Handled(e, _notify_l3_agent_delete_port(e))
    /\ UNCHANGED <<storeVars, l3_agents, schedVars, auxVars>>

\* get_ml2_port_bond_data(ctx, port_id, device_id) is called
BindingResolved ==
    /\ result = "idle"
    /\ \E port_id \in PortIds, device_id \in BindHosts :
          LET port_data == get_ml2_port_bond_data(port_id, device_id) IN
          /\ rpc' = Rpc("get_ml2_port_bond_data", port_id, device_id,
                        port_data.exc, port_data.val, <<>>)
          /\ result' = IF port_data.exc = "" THEN "returned" ELSE port_data.exc
    /\ UNCHANGED <<storeVars, l3_agents, schedVars, first, down,
                   ev, calls, notifications, sent>>

\* an agent calls get_ports_by_subnet(context, subnet_id=...)
PortsBySubnetRequested ==
    /\ result = "idle"
    /\ \E subnet_id \in SubnetIds :
          LET ports == get_ports_by_subnet(subnet_id) IN
          /\ rpc' = Rpc("get_ports_by_subnet", subnet_id, "", ports.exc, None,
                        ports.val)
          /\ result' = IF ports.exc = "" THEN "returned" ELSE ports.exc
    /\ UNCHANGED <<storeVars, l3_agents, schedVars, first, down,
                   ev, calls, notifications, sent>>

\* what a delivery of ev did, and the stores it ran against
Delivery ==
    [ev |-> ev, sent |-> sent, notifications |-> notifications,
     result |-> result, portStore |-> portStore,
     bindingStore |-> bindingStore, l3_agents |-> l3_agents,
     redelivered |-> FALSE]

\* the port dict of the event after its delivery: remove_vm_port and
\* _send_new_port_notify write 'subnets' and 'segmentation_id' into the
\* event's own port_dict; add_vm_port writes into the dict it re-read
PortAfterDelivery ==
    IF ev.kind = "AFTER_DELETE" /\ notifications # <<>>
    THEN Some(notifications[1].arp_table)
    ELSE ev.port

\* the platform changes a store between the two deliveries of an event
ChangedBeforeRedelivery ==
    /\ result # "idle"
    /\ ev # NoEvent
    /\ first = None
    /\ first' = Some(Delivery)
    /\ \/ /\ \E p \in StoredPorts :
                portStore' = [portStore EXCEPT ![p.id] = p]
          /\ portStore' # portStore
          /\ UNCHANGED <<bindingStore, l3_agents>>
       \/ /\ \E k \in DOMAIN bindingStore,
                b \in {None} \cup {Some(segs) : segs \in SegmentLists} :
                bindingStore' = [bindingStore EXCEPT ![k] = b]
          /\ bindingStore' # bindingStore
          /\ UNCHANGED <<portStore, l3_agents>>
       \/ /\ \E a \in Agents :
                l3_agents' = IF a \in l3_agents THEN l3_agents \ {a}
                             ELSE l3_agents \cup {a}
          /\ UNCHANGED storeVars
    /\ UNCHANGED <<eventVars, schedVars, rpc, down>>

\* the event bus delivers the same event a second time
Redelivered ==
    /\ result # "idle"
    /\ ev # NoEvent
    /\ IF first = None THEN TRUE ELSE ~first[1].redelivered
    /\ first' = Some([(IF first = None THEN Delivery ELSE first[1])
                         EXCEPT !.redelivered = TRUE])
    /\ \E port \in {ev.port, PortAfterDelivery} :
          LET e == [ev EXCEPT !.port = port] IN
          Handled(e, IF e.kind = "AFTER_DELETE"
                     THEN _notify_l3_agent_delete_port(e)
                     ELSE _notify_l3_agent_new_port(e))
    /\ UNCHANGED <<storeVars, l3_agents, schedVars, rpc, down>>

\* the callback has returned (or raised) to the bus; nothing of the event
\* is kept by the plugin
CallbackDone ==
    /\ result # "idle"
    /\ ev' = NoEvent
    /\ result' = "idle"
    /\ sent' = <<>>
    /\ notifications' = <<>>
    /\ calls' = <<>>
    /\ rpc' = NoRpc
    /\ first' = None
    /\ UNCHANGED <<storeVars, l3_agents, schedVars, down>>

\* the platform updates a port between two events
PortUpdated ==
    /\ result = "idle"
    /\ \E p \in StoredPorts : portStore' = [portStore EXCEPT ![p.id] = p]
    /\ UNCHANGED <<bindingStore, l3_agents, eventVars, schedVars, auxVars>>

\* the platform binds or unbinds a port between two events
BindingChanged ==
    /\ result = "idle"
    /\ \E k \in DOMAIN bindingStore, b \in {None} \cup {Some(s) : s \in SegmentLists} :
          bindingStore' = [bindingStore EXCEPT ![k] = b]
    /\ UNCHANGED <<portStore, l3_agents, eventVars, schedVars, auxVars>>

\* the transport to an agent fails: a cast to the agent raises
TransportFailed ==
    /\ result = "idle"
    /\ \E a \in Agents \ down : down' = down \cup {a}
    /\ UNCHANGED <<storeVars, l3_agents, eventVars, schedVars, rpc, first>>

TransportRestored ==
    /\ result = "idle"
    /\ \E a \in down : down' = down \ {a}
    /\ UNCHANGED <<storeVars, l3_agents, eventVars, schedVars, rpc, first>>

AgentRegistered ==
    /\ result = "idle"
    /\ \E a \in Agents \ l3_agents : l3_agents' = l3_agents \cup {a}
    /\ UNCHANGED <<storeVars, eventVars, schedVars, auxVars>>

AgentUnregistered ==
    /\ result = "idle"
    /\ \E a \in l3_agents : l3_agents' = l3_agents \ {a}
    /\ UNCHANGED <<storeVars, eventVars, schedVars, auxVars>>

Init ==
    /\ portStore = [id \in PortIds |->
                      PortDict(id, OWNER_COMPUTE, "", <<>>, "h1", None)]
    /\ bindingStore = [k \in PortIds \X BindHosts |-> None]
    /\ l3_agents = {}
    /\ ev = NoEvent
    /\ result = "idle"
    /\ calls = <<>>
    /\ notifications = <<>>
    /\ sent = <<>>
    /\ bindings = {}
    /\ pass = [h \in Hosts |-> IdlePass]
    /\ rpc = NoRpc
    /\ first = None
    /\ down = {}

Next ==
    \/ PortCreatedOrUpdated
    \/ PortDeleted
    \/ BindingResolved
    \/ PortsBySubnetRequested
    \/ CallbackDone
    \/ PortUpdated
    \/ BindingChanged
    \/ AgentRegistered
    \/ AgentUnregistered

Spec == Init /\ [][Next]_vars

NextSched ==
    \/ AutoScheduleSelect
    \/ AutoScheduleBind
    \/ AutoScheduleReturn
    \/ AgentRegistered
    \/ AgentUnregistered

SchedSpec == Init /\ [][NextSched]_vars

\* an event and its redelivery are followed from stores that hold a port
\* with a fixed IP, bound or not, and at least one agent
InitRedelivery ==
    /\ portStore \in [PortIds ->
                        {p \in StoredPorts :
                            /\ p.device_owner \in {OWNER_COMPUTE,
                                                   OWNER_ROUTER_INTERFACE}
                            /\ p.device_id # ""
                            /\ p.fixed_ips # <<>>}]
    /\ bindingStore \in [PortIds \X BindHosts ->
                           {None, Some(<<Segment(1)>>)}]
    /\ l3_agents \in {{"a1"}, Agents}
    /\ ev = NoEvent
    /\ result = "idle"
    /\ calls = <<>>
    /\ notifications = <<>>
    /\ sent = <<>>
    /\ bindings = {}
    /\ pass = [h \in Hosts |-> IdlePass]
    /\ rpc = NoRpc
    /\ first = None
    /\ down = {}

NextTransport ==
    \/ PortCreatedOrUpdated
    \/ PortDeleted
    \/ CallbackDone
    \/ AgentRegistered
    \/ AgentUnregistered
    \/ TransportFailed
    \/ TransportRestored

TransportSpec == Init /\ [][NextTransport]_vars

NextRedelivery ==
    \/ PortCreatedOrUpdated
    \/ PortDeleted
    \/ ChangedBeforeRedelivery
    \/ Redelivered

RedeliverySpec == InitRedelivery /\ [][NextRedelivery]_vars

-----------------------------------------------------------------------------
(* Properties *)

IsNewPortEvent == ev.kind \in {"AFTER_CREATE", "AFTER_UPDATE"}
IsDeleteEvent == ev.kind = "AFTER_DELETE"
HasPort == ev.port # None
HasContext == ev.context = "ctx"

\* the port is VM-owned (its owner tag contains the compute marker) and has
\* at least one fixed IP
Eligible(port) ==
    /\ COMPUTE_MARKER \in {port.device_owner[i] : i \in DOMAIN port.device_owner}
    /\ port.fixed_ips # <<>>

ARP_METHODS == {"add_arp_entry", "del_arp_entry"}

Indices(q) == 1..Len(q)
ArpMessages == {i \in Indices(sent) : sent[i].method \in ARP_METHODS}
Casts == {i \in Indices(sent) : sent[i].via = "cast"}
RouterScopedArpCalls ==
    {i \in ArpMessages : sent[i].via = "l3_rpc_notifier"}

\* the casts are one per registered L3 agent, each addressed to the agent's
\* own topic and host, carrying router_id 0 and the notification's data
BroadcastOf(n) ==
    /\ \A a \in l3_agents :
          Cardinality({i \in Casts : /\ sent[i].topic = AgentTopic(a)
                                     /\ sent[i].server = AgentHost(a)}) = 1
    /\ \A i \in Casts :
          /\ \E a \in l3_agents : /\ sent[i].topic = AgentTopic(a)
                                  /\ sent[i].server = AgentHost(a)
          /\ sent[i].method = n.operation \o "_arp_entry"
          /\ sent[i].router_id = PyZero
          /\ sent[i].port = n.arp_table

\* C1: add_port and remove_port on a port that is not VM-owned or has no
\* fixed IP build no ARP notification and send no ARP message, neither a
\* router-scoped call nor a cast, whatever the stores and the agents are.
C1_IneligibleSkips ==
    (result # "idle" /\ HasPort /\ ~Eligible(ev.port[1]))
        => (notifications = <<>> /\ ArpMessages = {})

C1_Witness ==
    /\ result = "returned"
    /\ calls = <<"add_port">>
    /\ ev.port[1].device_owner = OWNER_DHCP
    /\ Len(ev.port[1].fixed_ips) > 0
    /\ l3_agents = Agents

\* C2 as claimed: on an eligible add event the router_id of the add
\* notification is the device_id of the event's port when that port's owner
\* is a router-interface kind, and 0 otherwise (stated here for the events
\* whose port has a non-empty device id in the store).
C2_RouterIdFromEventPort ==
    \A i \in Indices(notifications) :
        (notifications[i].operation = "add"
            /\ get_port(ev.port[1].id).device_id # "") =>
            notifications[i].router_id =
                IF ev.port[1].device_owner \in ROUTER_INTERFACE_OWNERS
                THEN ev.port[1].device_id
                ELSE PyZero

\* C2 amended: on an eligible add event the router_id of the add
\* notification is the device_id of the port as re-read from the port store
\* (the port the notification carries) when that stored port's owner is a
\* router-interface kind, and 0 otherwise.
C2_RouterIdFromStoredPort ==
    \A i \in Indices(notifications) :
        notifications[i].operation = "add" =>
            /\ Eligible(ev.port[1])
            /\ notifications[i].arp_table.id = ev.port[1].id
            /\ notifications[i].arp_table.device_owner =
                   get_port(ev.port[1].id).device_owner
            /\ notifications[i].arp_table.device_id =
                   get_port(ev.port[1].id).device_id
            /\ notifications[i].router_id =
                   IF get_port(ev.port[1].id).device_owner \in ROUTER_INTERFACE_OWNERS
                   THEN get_port(ev.port[1].id).device_id
                   ELSE PyZero

C2_Witness ==
    /\ result = "returned"
    /\ Len(notifications) = 1
    /\ notifications[1].operation = "add"
    /\ notifications[1].router_id = "r1"
    /\ get_port(ev.port[1].id).device_owner = OWNER_ROUTER_INTERFACE

\* C3: on an eligible delete event the ARP delete notification has
\* router_id 0 and segmentation_id 0, whatever the binding store holds for
\* the port and whatever segmentation_id the event's port dict carried.
C3_DeleteIsZero ==
    /\ \A i \in Indices(notifications) :
          notifications[i].operation = "del" =>
              /\ notifications[i].router_id = PyZero
              /\ notifications[i].arp_table.segmentation_id = Some(0)
    /\ \A i \in ArpMessages :
          sent[i].method = "del_arp_entry" =>
              /\ sent[i].router_id = PyZero
              /\ sent[i].port.segmentation_id = Some(0)
    /\ (IsDeleteEvent /\ HasPort /\ ev.context # "absent"
          /\ Eligible(ev.port[1]))
        => /\ Len(notifications) = 1
           /\ notifications[1].operation = "del"

C3_Witness ==
    /\ IsDeleteEvent
    /\ result = "returned"
    /\ ev.port[1].segmentation_id = Some(7)
    /\ bindingStore[<<ev.port[1].id, ev.port[1].binding_host_id>>] # None
    /\ Len(bindingStore[<<ev.port[1].id, ev.port[1].binding_host_id>>][1]) > 0
    /\ \E i \in Casts : sent[i].method = "del_arp_entry"

\* C4: an ARP notification (add or delete) with router_id 0 is cast once to
\* each agent get_l3_agents returns, to that agent's own topic and host,
\* with payload router_id 0 and arp_table the notification data, and to no
\* other agent.
C4_BroadcastReachesEveryAgentOnce ==
    \A i \in Indices(notifications) :
        (notifications[i].router_id = PyZero /\ HasContext)
            => /\ BroadcastOf(notifications[i])
               /\ Cardinality(Casts) = Cardinality(l3_agents)
               /\ \A k \in Casts : sent[k].version = RPC_VERSION

C4_Witness ==
    /\ result = "returned"
    /\ Len(notifications) = 1
    /\ notifications[1].router_id = PyZero
    /\ l3_agents = Agents
    /\ Cardinality(Casts) = 2

\* the one router-scoped call of a notification: add_arp_entry or
\* del_arp_entry as the operation says, for its router_id and data
RouterScopedOf(n) ==
    /\ Cardinality(RouterScopedArpCalls) = 1
    /\ \A i \in RouterScopedArpCalls :
          /\ sent[i].method = n.operation \o "_arp_entry"
          /\ sent[i].router_id = n.router_id
          /\ sent[i].port = n.arp_table

\* C5 as claimed: router_id != 0 gives exactly one router-scoped call and
\* no cast; router_id == 0 gives the broadcast and no router-scoped call.
C5_PathByNonZero ==
    \A i \in Indices(notifications) :
        HasContext =>
            IF notifications[i].router_id # PyZero
            THEN RouterScopedOf(notifications[i]) /\ Casts = {}
            ELSE BroadcastOf(notifications[i]) /\ RouterScopedArpCalls = {}

\* C5 amended: the path is decided by the truth value of router_id alone
\* and the two paths are exclusive: a router_id that is neither 0 nor the
\* empty string gives exactly one router-scoped call (add_arp_entry or
\* del_arp_entry as the operation says) and no cast; a router_id that is 0
\* or the empty string gives the broadcast and no router-scoped call.
C5_PathByTruthValue ==
    \A i \in Indices(notifications) :
        HasContext =>
            IF Truthy(notifications[i].router_id)
            THEN RouterScopedOf(notifications[i]) /\ Casts = {}
            ELSE /\ BroadcastOf(notifications[i])
                 /\ Cardinality(Casts) = Cardinality(l3_agents)
                 /\ RouterScopedArpCalls = {}

C5_Witness ==
    /\ result = "returned"
    /\ Len(notifications) = 1
    /\ notifications[1].router_id = "r1"
    /\ l3_agents = Agents
    /\ Len(sent) = 1
    /\ sent[1].via = "l3_rpc_notifier"
    /\ sent[1].method = "add_arp_entry"

RouterDeletedMessages == {i \in Indices(sent) : sent[i].method = "router_deleted"}

\* the number of entries of removed_routers equal to entry e
Occurrences(e) ==
    Cardinality({k \in Indices(ev.removed_routers) : ev.removed_routers[k] = e})

\* C6 as claimed: on an AFTER_DELETE event that carries a context, each
\* entry {router_id, agent_id} of removed_routers gets exactly one
\* router-removed notification for its router_id, and that notification is
\* addressed to the entry's agent and to no other.
C6_RouterRemovedAddressedToAgent ==
    (IsDeleteEvent /\ HasPort /\ HasContext) =>
        \A k \in Indices(ev.removed_routers) :
            LET e == ev.removed_routers[k] IN
            /\ Cardinality({i \in RouterDeletedMessages :
                               sent[i].router_id = e.router_id}) = Occurrences(e)
            /\ \A i \in RouterDeletedMessages :
                  sent[i].router_id = e.router_id
                      => sent[i].server = AgentHost(e.agent_id)

\* C7 as claimed: deleting a port whose owner is a router-interface kind,
\* with a non-empty removed_routers list, produces an ARP delete
\* notification for the port and a router-removed notification for each
\* removed router (stated here for ports that have a fixed IP).
C7_RouterPortDeleteSendsArpDelete ==
    (IsDeleteEvent /\ HasPort /\ HasContext
        /\ ev.port[1].device_owner \in ROUTER_INTERFACE_OWNERS
        /\ ev.port[1].fixed_ips # <<>>
        /\ ev.removed_routers # <<>>)
    => /\ \E i \in Indices(notifications) :
             /\ notifications[i].operation = "del"
             /\ notifications[i].arp_table.id = ev.port[1].id
       /\ \A k \in Indices(ev.removed_routers) :
             \E i \in RouterDeletedMessages :
                 sent[i].router_id = ev.removed_routers[k].router_id

\* C7 amended: deleting a port whose owner is a router-interface kind
\* produces no ARP delete notification (the port is not VM-owned); the
\* handler, when it returns, has sent one routers-updated notification
\* (router_ids = [port.device_id], operation "del_interface", the port as
\* data) followed by one router-removed notification per entry of
\* removed_routers, in order, and nothing else; when it raises, it has sent
\* nothing.
C7_RouterPortDeleteSendsNoArp ==
    (IsDeleteEvent /\ HasPort /\ result # "idle"
        /\ ev.port[1].device_owner \in ROUTER_INTERFACE_OWNERS)
    => /\ notifications = <<>>
       /\ ArpMessages = {}
       /\ result = "returned" =>
             sent = <<RoutersUpdated(<<ev.port[1].device_id>>, "del_interface",
                                     [port |-> ev.port[1]])>>
                    \o [k \in Indices(ev.removed_routers) |->
                           RouterDeleted(ev.removed_routers[k].router_id)]
       /\ result # "returned" => sent = <<>>

C7_Witness ==
    /\ IsDeleteEvent
    /\ result = "returned"
    /\ HasContext
    /\ ev.port[1].device_owner = OWNER_ROUTER_INTERFACE
    /\ Len(ev.port[1].fixed_ips) > 0
    /\ ev.port[1].device_id = "r1"
    /\ ev.removed_routers = <<RemovedRouter("r1", "a1")>>
    /\ l3_agents = Agents
    /\ Len(sent) = 2

AnyFlag == FlagTrue(ev.mac_address_updated) \/ FlagTrue(ev.update_device_up)
Forwarded == \E i \in Indices(calls) : calls[i] = "add_port"

\* C8: an AFTER_CREATE / AFTER_UPDATE event that carries a port is forwarded
\* to add_port if and only if it carries a context and mac_address_updated
\* or update_device_up is true; when both flags are false or absent nothing
\* is sent for the event.
C8_ForwardedIffContextAndFlag ==
    (IsNewPortEvent /\ result # "idle") =>
        /\ HasPort => (Forwarded <=> (HasContext /\ AnyFlag))
        /\ ~AnyFlag => (sent = <<>> /\ notifications = <<>> /\ calls = <<>>)
        /\ ~Forwarded => sent = <<>>

C8_Witness ==
    /\ IsNewPortEvent
    /\ result = "returned"
    /\ Forwarded
    /\ ev.mac_address_updated = "False"
    /\ ev.update_device_up = "True"
    /\ sent # <<>>

\* C9 as claimed: a port event of any of the three kinds that arrives
\* without a caller context is dropped: nothing is sent and the handler
\* returns normally.
C9_MissingContextDropped ==
    (result # "idle" /\ HasPort /\ KwargsGetContext(ev) = "None") =>
        (sent = <<>> /\ result = "returned")

Agents_of(r) == {b[2] : b \in {x \in bindings : x[1] = r}}

\* C10: under every interleaving of auto_schedule_routers passes for
\* different hosts over overlapping candidates, no router is bound to two
\* agents: a pass binds a router only if it is unscheduled when it binds.
C10_NoDoubleBinding ==
    \A r \in Routers : Cardinality(Agents_of(r)) <= 1

C10_Witness ==
    /\ pass["h1"].pc = "done"
    /\ pass["h2"].pc = "done"
    /\ pass["h1"].ret = "None"
    /\ pass["h2"].ret = "None"
    /\ "r1" \in pass["h1"].unscheduled_rs
    /\ "r1" \in pass["h2"].unscheduled_rs
    /\ Agents_of("r1") = {"a2"}

\* C11: when the host has no enabled L3 agent, a call of
\* auto_schedule_routers ends at once with the return value False: the
\* policy is not asked for candidates, no bind step follows and no router
\* binding changes.
C11_NoAgentNoBind ==
    [][\A h \in Hosts :
          (/\ pass[h].pc = "idle"
           /\ pass'[h].pc # "idle"
           /\ ~\E a \in l3_agents : AgentHost(a) = h)
          => /\ pass'[h] = Pass("done", None, pass'[h].router_ids, {}, "False")
             /\ bindings' = bindings]_vars

\* a call for a host without agent has returned False although candidates
\* are unbound and another host has an agent
C11_Witness ==
    /\ pass["h1"].pc = "done"
    /\ pass["h1"].ret = "False"
    /\ pass["h1"].router_ids = Routers
    /\ bindings = {}
    /\ l3_agents = {"a2"}

\* the binding context the resolver call of this state looked up
ResolvedContext == get_bound_port_context(rpc.arg, rpc.host)

\* C12: get_ml2_port_bond_data returns None exactly when the port has no
\* bound port context; whenever a context exists the call returns a binding
\* info value and never None.
C12_NoneIffNoContext ==
    rpc.op = "get_ml2_port_bond_data"
    => /\ ResolvedContext = None => (rpc.exc = "" /\ rpc.data = None)
       /\ ResolvedContext # None => (rpc.exc = "" /\ rpc.data # None)

\* C13: when a bound port context exists but its list of network segments
\* is empty, get_ml2_port_bond_data raises nothing and returns an empty
\* binding info, one without segmentation fields.
C13_UnreadableSegmentYieldsEmptyInfo ==
    (/\ rpc.op = "get_ml2_port_bond_data"
     /\ ResolvedContext # None
     /\ ResolvedContext[1] = <<>>)
    => /\ rpc.exc = ""
       /\ rpc.data # None
       /\ "segmentation_id" \notin DOMAIN rpc.data[1]

\* the segmentation id an add notification is to carry: 0 when the binding
\* lookup yields no data or data without segments, else the id of the first
\* bound segment
ExpectedSegmentationId(port) ==
    LET port_context == get_bound_port_context(port.id, port.binding_host_id) IN
    IF port_context = None \/ port_context[1] = <<>> THEN 0
    ELSE port_context[1][1].segmentation_id

\* C14: every forwarded add event for an eligible port sends the ARP add
\* notification, and the notification carries segmentation id 0 when the
\* binding lookup yields no binding data, else the segmentation id of the
\* first bound segment.
C14_EligibleAddAlwaysNotifies ==
    (/\ result # "idle"
     /\ IsNewPortEvent
     /\ HasPort
     /\ HasContext
     /\ AnyFlag
     /\ Eligible(ev.port[1]))
    => /\ Len(notifications) = 1
       /\ notifications[1].operation = "add"
       /\ notifications[1].arp_table.segmentation_id =
             Some(ExpectedSegmentationId(get_port(ev.port[1].id)))

IsRedelivered == first # None /\ first[1].redelivered
StoresAsAtFirstDelivery ==
    /\ portStore = first[1].portStore
    /\ bindingStore = first[1].bindingStore
    /\ l3_agents = first[1].l3_agents

RoutersUpdatedMessages == {i \in Indices(sent) : sent[i].method = "routers_updated"}

\* C16: a delete event that carries a context and the port sends the
\* routers-updated message exactly once when the deleted port's owner is a
\* router-interface kind, with router_ids = [the port's device_id],
\* operation "del_interface" and the deleted port as payload; for a port of
\* any other owner, and on add events, it is never sent.
C16_DelInterfaceOnceForRouterPort ==
    (result # "idle" /\ HasPort)
    => LET port == ev.port[1] IN
       /\ (IsDeleteEvent /\ HasContext
              /\ port.device_owner \in ROUTER_INTERFACE_OWNERS)
          => /\ Cardinality(RoutersUpdatedMessages) = 1
             /\ \A i \in RoutersUpdatedMessages :
                   /\ sent[i].via = "l3_rpc_notifier"
                   /\ sent[i].router_ids = <<port.device_id>>
                   /\ sent[i].operation = "del_interface"
                   /\ sent[i].port = port
       /\ (~IsDeleteEvent \/ port.device_owner \notin ROUTER_INTERFACE_OWNERS)
          => RoutersUpdatedMessages = {}

\* the port of a router interface was deleted, with two routers
\* removed along with it
C16_Witness ==
    /\ IsDeleteEvent
    /\ HasPort
    /\ HasContext
    /\ result = "returned"
    /\ ev.port[1].device_owner = OWNER_ROUTER_INTERFACE
    /\ ev.port[1].device_id = "r1"
    /\ Len(ev.removed_routers) = 2
    /\ Cardinality(RoutersUpdatedMessages) = 1

Unbound(bound, rs) == {r \in rs : ~\E a \in Agents : <<r, a>> \in bound}

\* C17: a pass that found an enabled agent on its host and has returned has
\* bound every router the policy reported as unbound to that agent.
C17_PassBindsReportedSubset ==
    \A h \in Hosts :
        (pass[h].pc = "done" /\ pass[h].l3_agent # None)
        => \A r \in pass[h].unscheduled_rs :
               <<r, pass[h].l3_agent[1]>> \in bindings

\* C17 (amended): a pass that finds an enabled agent on its host takes from
\* the policy exactly the candidates unbound at that moment and changes no
\* binding yet; its bind step then binds to that agent exactly those of
\* them that are still unbound, and leaves every other binding, of routers
\* already bound or outside the candidate list, as it was.
C17_PassBindsStillUnboundOfReported ==
    [][\A h \in Hosts :
          /\ (pass[h].pc = "idle" /\ pass'[h].pc = "bind")
             => /\ \E a \in l3_agents : /\ AgentHost(a) = h
                                         /\ pass'[h].l3_agent = Some(a)
                /\ pass'[h].unscheduled_rs =
                      Unbound(bindings, pass'[h].router_ids)
                /\ bindings' = bindings
          /\ (pass[h].pc = "bind" /\ pass'[h].pc = "done")
             => /\ bindings' =
                      bindings \cup
                      {<<r, pass[h].l3_agent[1]>> :
                          r \in Unbound(bindings, pass[h].unscheduled_rs)}
                /\ pass'[h].ret = "None"]_vars

\* a pass was handed both routers as unbound and has bound one of them, the
\* other having been bound by the pass of the other host in between
C17_Witness ==
    /\ pass["h1"].pc = "done"
    /\ pass["h1"].ret = "None"
    /\ pass["h1"].unscheduled_rs = Routers
    /\ bindings = {<<"r1", "a2">>, <<"r2", "a1">>}

\* C18: get_ports_by_subnet degrades a missing binding to segmentation id 0
\* without raising: when no port of the subnet has a bound port context the
\* call returns all the ports of the subnet, each with segmentation_id 0.
C18_MissingBindingDegradesToZero ==
    LET ports == SubnetPorts(rpc.arg) IN
    (/\ rpc.op = "get_ports_by_subnet"
     /\ \A i \in Indices(ports) :
           get_bound_port_context(ports[i].id, ports[i].binding_host_id) = None)
    => /\ rpc.exc = ""
       /\ rpc.ports = [i \in Indices(ports) |->
                          [ports[i] EXCEPT !.segmentation_id = Some(0)]]

CastsTo(a) == {i \in Casts : /\ sent[i].topic = AgentTopic(a)
                             /\ sent[i].server = AgentHost(a)}

\* C19: a cast that fails is dropped and aborts nothing: when an event
\* yields an ARP notification to broadcast, every registered agent whose
\* transport works is cast to exactly once, no agent is cast to twice, and
\* on a delete event every entry of removed_routers still gets its
\* router-removed notification.
C19_FailedCastAbortsNothing ==
    (/\ result # "idle"
     /\ HasPort
     /\ HasContext
     /\ notifications # <<>>
     /\ ~Truthy(notifications[1].router_id))
    => /\ \A a \in l3_agents \ down : Cardinality(CastsTo(a)) = 1
       /\ \A a \in Agents : Cardinality(CastsTo(a)) <= 1
       /\ IsDeleteEvent
          => Cardinality(RouterDeletedMessages) = Len(ev.removed_routers)

\* C20: eligibility is tested on the event's port and router_id is taken
\* from the port re-read from the store, and no router-interface owner kind
\* contains the compute marker; so on an add event whose stored port has
\* the owner the event's port has, every ARP add notification has router_id
\* 0 and is broadcast to the agents, and a router-scoped add_arp_entry is
\* sent only when the stored owner differs from the event's.
C20_RouterScopedAddOnlyOnOwnerChange ==
    /\ \A o \in ROUTER_INTERFACE_OWNERS :
          COMPUTE_MARKER \notin {o[i] : i \in DOMAIN o}
    /\ (result # "idle" /\ IsNewPortEvent /\ HasPort)
       => LET stored == get_port(ev.port[1].id) IN
          /\ stored.device_owner = ev.port[1].device_owner
             => /\ RouterScopedArpCalls = {}
                /\ \A k \in Indices(notifications) :
                      /\ notifications[k].operation = "add"
                      /\ notifications[k].router_id = PyZero
                      /\ BroadcastOf(notifications[k])
          /\ RouterScopedArpCalls # {}
             => /\ stored.device_owner # ev.port[1].device_owner
                /\ stored.device_owner \in ROUTER_INTERFACE_OWNERS

\* an add event for a VM port whose stored port has the same owner and a
\* device id was broadcast to two agents
C20_Witness ==
    /\ IsNewPortEvent
    /\ HasPort
    /\ result = "returned"
    /\ get_port(ev.port[1].id).device_owner = ev.port[1].device_owner
    /\ get_port(ev.port[1].id).device_id = "r1"
    /\ Len(notifications) = 1
    /\ Cardinality(Casts) = 2

====
